---- MODULE Spec2Model ----
(***************************************************************************)
(* kosync: the authenticated reading-progress synchronisation API          *)
(* (src/src/api.rs).  Requests are served concurrently; every store call   *)
(* (get_user, put_user, get_doc, put_doc) is one atomic step, and a        *)
(* request's steps interleave freely with those of the other requests.     *)
(*                                                                         *)
(* Strings are sequences of characters.  Option<T> is a set with at most   *)
(* one element ({} is None, {v} is Some(v)), Result<T, E> is a record      *)
(* [ok, val].                                                              *)
(***************************************************************************)
EXTENDS Naturals, Sequences, FiniteSets

\* ------------------------------------------------------------------ bounds

\* Number of requests that can be in flight at the same time.
NumReq == 2
\* Largest value of the server clock (seconds).
MaxClock == 1
\* Number of requests served in one run.
MaxRequests == 3

\* defs::FIELD_LEN_LIMIT, scaled down so that a too-long string is short.
FIELD_LEN_LIMIT == 2

\* --------------------------------------------------------------- strings

None == {}
Some(v) == {v}

sA == <<"a">>
sB == <<"b">>
\* Printable, but holds the storage-key delimiter.
sDelim == <<"a", ":">>
\* Holds a control character (a tab is legal in a header value).
sCtl == <<"TAB">>
\* One character over FIELD_LEN_LIMIT.
sLong == [i \in 1..(FIELD_LEN_LIMIT + 1) |-> "a"]
sEmpty == << >>
\* Holds a byte outside ASCII.
sBin == <<"xFF">>
\* The peer address of the connection, and a proxy-supplied address.
sPeer == <<"9">>
sProxy == <<"1">>

KeySafeChars == {"a", "b", "1", "9"}
ControlChars == {"TAB"}
\* http::HeaderValue::to_str accepts visible ASCII and tab.
VisibleAscii == {"a", "b", "1", "9", ":", "TAB"}

\* utils::is_valid_field: non-empty, within the limit, no control character.
is_valid_field(s) ==
    /\ Len(s) > 0
    /\ Len(s) <= FIELD_LEN_LIMIT
    /\ \A i \in 1..Len(s) : s[i] \notin ControlChars

\* utils::is_valid_key_field: non-empty, within the limit, only
\* identifier-safe characters.
is_valid_key_field(s) ==
    /\ Len(s) > 0
    /\ Len(s) <= FIELD_LEN_LIMIT
    /\ \A i \in 1..Len(s) : s[i] \in KeySafeChars

\* HeaderValue::to_str().ok(): the text of a header value, when it is text.
to_str(v) == IF \A i \in 1..Len(v) : v[i] \in VisibleAscii THEN Some(v) ELSE None

\* headers.get(name): None when the header is absent.
HeaderGet(headers, name) == headers[name]

\* The closure `check` of auth (api.rs 36-41).
check(headers, name) ==
    LET got == HeaderGet(headers, name)
        txt == IF got = None THEN None ELSE to_str(CHOOSE v \in got : TRUE)
    IN  {v \in txt : Len(v) <= FIELD_LEN_LIMIT /\ is_valid_field(v)}

\* The caller address auth logs (api.rs 42-55).
auth_addr(headers, peer) ==
    IF HeaderGet(headers, "x-real-ip") # None
    THEN LET txt == to_str(CHOOSE v \in HeaderGet(headers, "x-real-ip") : TRUE)
         IN  IF txt = None THEN sEmpty ELSE CHOOSE v \in txt : TRUE
    ELSE peer

\* utils::get_remote_addr: the proxy header when present and well formed,
\* else the peer address.
get_remote_addr(headers, peer) ==
    LET got == HeaderGet(headers, "x-real-ip")
        txt == IF got = None THEN None ELSE to_str(CHOOSE v \in got : TRUE)
    IN  IF txt # None /\ (CHOOSE v \in txt : TRUE) # sEmpty
        THEN CHOOSE v \in txt : TRUE
        ELSE peer

\* ----------------------------------------------------------------- store

Ok(v) == [ok |-> TRUE, val |-> v]
Err == [ok |-> FALSE, val |-> None]
Outcomes == {"ok", "fault"}

EmptyMap == [k \in {} |-> None]
MapGet(m, k) == IF k \in DOMAIN m THEN Some(m[k]) ELSE None
MapPut(m, k, v) == [x \in DOMAIN m \cup {k} |-> IF x = k THEN v ELSE m[x]]

\* ----------------------------------------------------------------- state

VARIABLES
    users,   \* credential store: username -> secret
    docs,    \* progress store: <<username, document>> -> ProgressState
    clock,   \* the server's wall clock, in seconds
    reqs,    \* the requests in flight: position and locals of each
    nreq,    \* requests started so far
    last     \* the step just taken: inputs read, store calls, log, response

vars == <<users, docs, clock, reqs, nreq, last>>

Reqs == 1..NumReq

\* A request slot with no request in it.
Idle == [pc |-> "idle", user |-> None, data |-> None, calls |-> << >>]

NoResp == [status |-> "none"]
NoHeaders == [n \in {"x-auth-user", "x-auth-key", "x-real-ip"} |-> None]

\* What one step did: the handler (op), the principal it ran for (Authed), the
\* headers and body it read,
\* the store calls the request has issued so far, the log lines written by
\* the step, and the response when the step ends the request.
Step(r, op, user, headers, body, calls, log, resp) ==
    [req |-> r, op |-> op, user |-> user, headers |-> headers, body |-> body,
     calls |-> calls, log |-> log, resp |-> resp]

\* One store call as the store sees it.
Call(op, key, val, res) == [op |-> op, key |-> key, val |-> val, res |-> res]

\* One log line: level, message, the subject it names and, when the line
\* prints the header map ({:?} of HeaderMap), the headers printed.
Log(level, msg, who, headers) ==
    [level |-> level, msg |-> msg, who |-> who, headers |-> headers]

\* ---------------------------------------------------------------- inputs

Opt(S) == {None} \cup {Some(v) : v \in S}

MkHeaders(user, key, ip) ==
    [n \in {"x-auth-user", "x-auth-key", "x-real-ip"} |->
        IF n = "x-auth-user" THEN user ELSE IF n = "x-auth-key" THEN key ELSE ip]

\* x-auth-user / x-auth-key pairs: well-formed ones (known or unknown user,
\* right or wrong key), absent ones, and malformed ones (too long, control
\* character, not text, empty).
AuthPairs ==
    ({Some(sA), Some(sB)} \X {Some(sA), Some(sB)})
        \cup {<<Some(sDelim), Some(sA)>>}
        \cup {<<None, Some(sA)>>, <<Some(sA), None>>, <<None, None>>}
        \cup {<<Some(b), Some(sA)>> : b \in {sLong, sCtl, sBin}}
        \cup {<<Some(sA), Some(b)>> : b \in {sLong, sCtl, sEmpty}}

\* x-real-ip: absent, an address, or bytes that are not text.
RealIpVals == {None, Some(sProxy), Some(sBin)}

\* Header maps of the requests to authenticated routes.
AuthHeaders ==
    {MkHeaders(p[1], p[2], None) : p \in AuthPairs}
        \cup {MkHeaders(p[1], p[2], ip) :
                p \in {<<Some(sA), Some(sA)>>, <<None, None>>},
                ip \in RealIpVals}

\* Header maps of the requests to the open routes.
PlainHeaders == {MkHeaders(None, None, ip) : ip \in RealIpVals}

\* Bodies of POST /users/create: valid ones, and one invalid in each way.
CreateUserBodies ==
    [username : {sA, sB}, password : {sA, sB}]
        \cup {[username |-> sDelim, password |-> sA],
              [username |-> sLong, password |-> sA],
              [username |-> sA, password |-> sCtl]}

\* Requests to POST /users/create: headers and body.
CreateUserInputs ==
    {<<MkHeaders(None, None, None), d>> : d \in CreateUserBodies}
        \cup {<<h, [username |-> sA, password |-> sA]>> : h \in PlainHeaders}

\* Document ids: in the path of a pull, in the payload of a push.
DocVals == {sA, sDelim}

\* A timestamp only a client can have sent.
ClientTime == MaxClock + 5

\* Payloads of PUT /syncs/progress (ProgressState as deserialized): two
\* records that differ in every field, one of them with a client timestamp.
ProgressBodies ==
    {[document |-> d, percentage |-> f[1], progress |-> f[2], device |-> f[3],
      device_id |-> f[4], timestamp |-> f[5]] :
        d \in DocVals,
        f \in {<<1, sA, sA, sA, None>>, <<2, sB, sCtl, sB, Some(ClientTime)>>}}

\* ------------------------------------------------------------- store API

\* db.get_user / db.get_doc: the value stored under the key, or a fault.
get_user(username, outcome) ==
    IF outcome = "fault" THEN Err ELSE Ok(MapGet(users, username))

get_doc(username, document, outcome) ==
    IF outcome = "fault" THEN Err ELSE Ok(MapGet(docs, <<username, document>>))

\* db.put_user / db.put_doc: the store after the call (a key-value put
\* replaces what the key held); a faulting put leaves the store as it was.
put_user(username, password, outcome) ==
    IF outcome = "fault" THEN users ELSE MapPut(users, username, password)

put_doc(username, document, data, outcome) ==
    IF outcome = "fault" THEN docs ELSE MapPut(docs, <<username, document>>, data)

\* utils::now_timestamp
now_timestamp == clock

Init ==
    /\ users = EmptyMap
    /\ docs = EmptyMap
    /\ clock = 0
    /\ reqs = [r \in Reqs |-> Idle]
    /\ nreq = 0
    /\ last = Step(0, "init", None, NoHeaders, None, << >>, << >>, NoResp)

The(opt) == CHOOSE v \in opt : TRUE

\* Two progress records with the same content (timestamp aside).
SameProgress(a, b) ==
    /\ a.percentage = b.percentage
    /\ a.progress = b.progress
    /\ a.device = b.device
    /\ a.device_id = b.device_id

Failure(e) == [status |-> e]
PutResult(outcome) == IF outcome = "fault" THEN Err ELSE Ok(None)

\* A new request takes the first free slot (slots are interchangeable).
CanStart(r) ==
    /\ reqs[r].pc = "idle"
    /\ \A q \in Reqs : q < r => reqs[q].pc # "idle"
    /\ nreq < MaxRequests

\* ------------------------------------------------------------- auth gate

\* auth_match without the comparison of the key with the stored secret.
auth_match_any_key(key, res) ==
    IF res.ok /\ res.val # None THEN "admit"
    ELSE IF res.ok THEN "Unauthorized"
    ELSE "Internal"

\* auth_match reporting an unknown user as a fault.
auth_match_unknown_internal(key, res) ==
    IF res.ok /\ res.val # None /\ The(res.val) = key THEN "admit"
    ELSE IF res.ok /\ res.val # None THEN "Unauthorized"
    ELSE "Internal"

\* The inner match of auth (api.rs 58-73) on the lookup's result.
auth_match(key, res) ==
    IF res.ok /\ res.val # None /\ The(res.val) = key THEN "admit"
    ELSE IF res.ok THEN "Unauthorized"
    ELSE "Internal"

\* The warn/error line of a rejection prints the whole header map.
auth_reject_log(verdict, who, headers) ==
    IF verdict = "Internal"
    THEN Log("error", "AUTH - tripped an internal server error", who, Some(headers))
    ELSE Log("warn", "AUTH - unauthorized", who, Some(headers))

auth_no_tokens_log(headers) ==
    Log("warn", "AUTH - no tokens in headers", <<"N/A">>, Some(headers))

\* The middleware auth (api.rs 30-79) on a request for an authenticated route.
auth(r, headers, outcome) ==
    /\ CanStart(r)
    /\ nreq' = nreq + 1
    /\ UNCHANGED <<users, docs, clock>>
    /\ LET line == Log("info", "request", auth_addr(headers, sPeer), None)
           user == check(headers, "x-auth-user")
           key == check(headers, "x-auth-key")
       IN  \* the store's outcome is drawn only when the store is called
           /\ (user = None \/ key = None) => outcome = "ok"
           /\ IF user # None /\ key # None
              THEN LET res == get_user(The(user), outcome)
                       call == Call("get_user", The(user), None, res)
                       verdict == auth_match(The(key), res)
                   IN  IF verdict = "admit"
                       THEN /\ reqs' = [reqs EXCEPT ![r] =
                                   [pc |-> "handler", user |-> user, data |-> None,
                                    calls |-> <<call>>]]
                            /\ last' = Step(r, "auth", user, headers, None, <<call>>,
                                   <<line, Log("debug", "AUTH - ok", The(user), None)>>,
                                   NoResp)
                       ELSE /\ reqs' = reqs
                            /\ last' = Step(r, "auth", None, headers, None, <<call>>,
                                   <<line, auth_reject_log(verdict, The(user), headers)>>,
                                   Failure(verdict))
              ELSE /\ reqs' = reqs
                   /\ last' = Step(r, "auth", None, headers, None, << >>,
                           <<line, auth_no_tokens_log(headers)>>,
                           Failure("Unauthorized"))

\* ------------------------------------------------------------- handlers

\* auth_user (api.rs 82-88)
auth_user(r) ==
    /\ reqs[r].pc = "handler"
    /\ reqs' = [reqs EXCEPT ![r] = Idle]
    /\ last' = Step(r, "auth_user", reqs[r].user, NoHeaders, None, reqs[r].calls,
            <<Log("info", "LOGIN", The(reqs[r].user), None)>>,
            [status |-> "OK", authorized |-> "OK"])
    /\ UNCHANGED <<users, docs, clock, nreq>>

\* healthcheck probing the store with a write.
healthcheck_probe(r) ==
    /\ reqs[r].pc = "handler"
    /\ reqs' = [reqs EXCEPT ![r] = Idle]
    /\ docs' = MapPut(docs, <<The(reqs[r].user), sEmpty>>,
                      [document |-> sEmpty, percentage |-> 0, progress |-> sEmpty,
                       device |-> sEmpty, device_id |-> sEmpty,
                       timestamp |-> Some(clock)])
    /\ last' = Step(r, "healthcheck", reqs[r].user, NoHeaders, None, reqs[r].calls,
            <<Log("info", "HEALTH CHECK", The(reqs[r].user), None)>>,
            [status |-> "OK", state |-> "OK"])
    /\ UNCHANGED <<users, clock, nreq>>

\* healthcheck (api.rs 181-187)
healthcheck(r) ==
    /\ reqs[r].pc = "handler"
    /\ reqs' = [reqs EXCEPT ![r] = Idle]
    /\ last' = Step(r, "healthcheck", reqs[r].user, NoHeaders, None, reqs[r].calls,
            <<Log("info", "HEALTH CHECK", The(reqs[r].user), None)>>,
            [status |-> "OK", state |-> "OK"])
    /\ UNCHANGED <<users, docs, clock, nreq>>

\* robots (api.rs 190-197)
robots(r, headers) ==
    /\ CanStart(r)
    /\ nreq' = nreq + 1
    /\ last' = Step(r, "robots", None, headers, None, << >>,
            <<Log("info", "GET /robots.txt", get_remote_addr(headers, sPeer),
                  Some(headers))>>,
            [status |-> "OK", text |-> "User-agent: *\nDisallow: /\n"])
    /\ UNCHANGED <<users, docs, clock, reqs>>

\* create_user validating the username only.
create_user_valid_name_only(data) == is_valid_key_field(data.username)

\* create_user validating the password only.
create_user_valid_password_only(data) == is_valid_field(data.password)

\* The validation of create_user (api.rs 105).
create_user_valid(data) ==
    is_valid_key_field(data.username) /\ is_valid_field(data.password)

\* create_user without its existence check.
create_user_exists_never(res) == FALSE

\* `if let Ok(Some(_)) = db.get_user(..)` (api.rs 109).
create_user_exists(res) == res.ok /\ res.val # None

\* create_user up to its existence check (api.rs 97-112).
create_user(r, headers, data, outcome) ==
    /\ CanStart(r)
    /\ nreq' = nreq + 1
    /\ UNCHANGED <<users, docs, clock>>
    /\ LET line == Log("info", "POST /users/create",
                       get_remote_addr(headers, sPeer), Some(headers))
       IN  IF ~create_user_valid(data)
           THEN /\ reqs' = reqs
                /\ last' = Step(r, "create_user", None, headers, Some(data),
                        << >>,
                        <<line, Log("error", "REGISTER - invalid request",
                                    <<"N/A">>, None)>>,
                        Failure("InvalidRequest"))
           ELSE LET res == get_user(data.username, outcome)
                    call == Call("get_user", data.username, None, res)
                IN  IF create_user_exists(res)
                    THEN /\ reqs' = reqs
                         /\ last' = Step(r, "create_user", None, headers,
                                Some(data), <<call>>,
                                <<line, Log("warn", "REGISTER - user already exists",
                                            data.username, None)>>,
                                Failure("UserExists"))
                    ELSE /\ reqs' = [reqs EXCEPT ![r] =
                                [pc |-> "put_user", user |-> None, data |-> Some(data),
                                 calls |-> <<call>>]]
                         /\ last' = Step(r, "create_user", None, headers,
                                Some(data), <<call>>, <<line>>, NoResp)

\* create_user from db.put_user on (api.rs 113-125).
create_user_put(r, outcome) ==
    /\ reqs[r].pc = "put_user"
    /\ LET data == The(reqs[r].data)
           call == Call("put_user", data.username, Some(data.password),
                        PutResult(outcome))
       IN  /\ users' = put_user(data.username, data.password, outcome)
           /\ last' = Step(r, "create_user_put", None, NoHeaders,
                   Some(data), Append(reqs[r].calls, call),
                   IF outcome = "ok"
                   THEN <<Log("info", "REGISTER - ok", data.username, None)>>
                   ELSE <<Log("error", "REGISTER - tripped an internal server error",
                              data.username, None)>>,
                   IF outcome = "ok"
                   THEN [status |-> "Created", username |-> data.username]
                   ELSE Failure("Internal"))
    /\ reqs' = [reqs EXCEPT ![r] = Idle]
    /\ UNCHANGED <<docs, clock, nreq>>

\* get_progress answering a missing record with a default record.
get_progress_reply_default_record(doc, res) ==
    IF res.ok /\ res.val # None THEN [status |-> "OK", body |-> The(res.val)]
    ELSE IF res.ok
    THEN [status |-> "OK",
          body |-> [document |-> doc, percentage |-> 0, progress |-> sEmpty,
                    device |-> sEmpty, device_id |-> sEmpty,
                    timestamp |-> Some(now_timestamp)]]
    ELSE Failure("Internal")

\* get_progress answering a missing record with an error of its own.
get_progress_reply_not_found(doc, res) ==
    IF res.ok /\ res.val # None THEN [status |-> "OK", body |-> The(res.val)]
    ELSE IF res.ok THEN Failure("NotFound")
    ELSE Failure("Internal")

\* The response of get_progress to what db.get_doc returned (api.rs 141-154).
get_progress_reply(doc, res) ==
    IF res.ok /\ res.val # None THEN [status |-> "OK", body |-> The(res.val)]
    ELSE IF res.ok THEN [status |-> "OK", body |-> [document |-> doc]]
    ELSE Failure("Internal")

\* get_progress looking the record up by document id alone.
get_progress_by_document(r, doc, outcome) ==
    /\ reqs[r].pc = "handler"
    /\ reqs' = [reqs EXCEPT ![r] = Idle]
    /\ UNCHANGED <<users, docs, clock, nreq>>
    /\ LET user == The(reqs[r].user)
           held == {k \in DOMAIN docs : k[2] = doc}
           res == IF outcome = "fault" THEN Err
                  ELSE IF held = {} THEN Ok(None)
                  ELSE Ok(Some(docs[CHOOSE k \in held : TRUE]))
           call == Call("get_doc", <<user, doc>>, None, res)
       IN  IF ~is_valid_key_field(doc)
           THEN last' = Step(r, "get_progress", reqs[r].user, NoHeaders,
                    Some([document |-> doc]), reqs[r].calls,
                    <<Log("error", "PULL - 'document' field not provided", user, None)>>,
                    Failure("DocumentFieldMissing"))
           ELSE last' = Step(r, "get_progress", reqs[r].user, NoHeaders,
                    Some([document |-> doc]), Append(reqs[r].calls, call),
                    <<Log(IF res.ok THEN "info" ELSE "error", "PULL", user, None)>>,
                    get_progress_reply(doc, res))

\* get_progress (api.rs 131-155); doc is the path parameter.
get_progress(r, doc, outcome) ==
    /\ reqs[r].pc = "handler"
    /\ reqs' = [reqs EXCEPT ![r] = Idle]
    /\ UNCHANGED <<users, docs, clock, nreq>>
    /\ LET user == The(reqs[r].user)
       IN  IF ~is_valid_key_field(doc)
           THEN last' = Step(r, "get_progress", reqs[r].user, NoHeaders,
                    Some([document |-> doc]), reqs[r].calls,
                    <<Log("error", "PULL - 'document' field not provided", user, None)>>,
                    Failure("DocumentFieldMissing"))
           ELSE LET res == get_doc(user, doc, outcome)
                    call == Call("get_doc", <<user, doc>>, None, res)
                IN  last' = Step(r, "get_progress", reqs[r].user, NoHeaders,
                        Some([document |-> doc]), Append(reqs[r].calls, call),
                        <<Log(IF res.ok THEN "info" ELSE "error", "PULL", user, None)>>,
                        get_progress_reply(doc, res))

\* update_progress stamping only a payload that carries no timestamp.
update_progress_stamp_if_absent(data) ==
    IF data.timestamp = None THEN [data EXCEPT !.timestamp = Some(now_timestamp)]
    ELSE data

\* update_progress keeping a client timestamp that is ahead of the clock.
update_progress_stamp_max_client(data) ==
    IF data.timestamp # None /\ The(data.timestamp) > now_timestamp THEN data
    ELSE [data EXCEPT !.timestamp = Some(now_timestamp)]

\* `data.timestamp = Some(now_timestamp())` (api.rs 164).
update_progress_stamp(data) == [data EXCEPT !.timestamp = Some(now_timestamp)]

\* update_progress up to the timestamp (api.rs 158-164); data is the payload.
update_progress(r, data) ==
    /\ reqs[r].pc = "handler"
    /\ reqs' = [reqs EXCEPT ![r].pc = "put_doc",
                            ![r].data = Some(update_progress_stamp(data))]
    /\ last' = Step(r, "update_progress", reqs[r].user, NoHeaders, Some(data),
            reqs[r].calls, << >>, NoResp)
    /\ UNCHANGED <<users, docs, clock, nreq>>

\* The response of update_progress to db.put_doc's result (api.rs 165-177).
update_progress_reply(data, outcome) ==
    IF outcome = "ok"
    THEN [status |-> "OK", body |-> [document |-> data.document,
                                     timestamp |-> data.timestamp]]
    ELSE Failure("Internal")

\* update_progress merging the push into the stored record: the furthest
\* position read is kept.
update_progress_put_merge(r, outcome) ==
    /\ reqs[r].pc = "put_doc"
    /\ LET user == The(reqs[r].user)
           data == The(reqs[r].data)
           key == <<user, data.document>>
           merged == IF key \in DOMAIN docs /\ docs[key].percentage > data.percentage
                     THEN [data EXCEPT !.percentage = docs[key].percentage,
                                       !.progress = docs[key].progress]
                     ELSE data
           call == Call("put_doc", key, Some(data), PutResult(outcome))
       IN  /\ docs' = put_doc(user, data.document, merged, outcome)
           /\ last' = Step(r, "update_progress_put", reqs[r].user, NoHeaders,
                   Some(data), Append(reqs[r].calls, call),
                   <<Log(IF outcome = "ok" THEN "info" ELSE "error", "PUSH", user,
                         None)>>,
                   update_progress_reply(data, outcome))
    /\ reqs' = [reqs EXCEPT ![r] = Idle]
    /\ UNCHANGED <<users, clock, nreq>>

\* update_progress not writing a push whose content is already stored.
update_progress_put_skip_same(r, outcome) ==
    /\ reqs[r].pc = "put_doc"
    /\ LET user == The(reqs[r].user)
           data == The(reqs[r].data)
           key == <<user, data.document>>
           call == Call("put_doc", key, Some(data), PutResult(outcome))
       IN  /\ docs' = IF key \in DOMAIN docs /\ SameProgress(docs[key], data)
                      THEN docs
                      ELSE put_doc(user, data.document, data, outcome)
           /\ last' = Step(r, "update_progress_put", reqs[r].user, NoHeaders,
                   Some(data), Append(reqs[r].calls, call),
                   <<Log(IF outcome = "ok" THEN "info" ELSE "error", "PUSH", user,
                         None)>>,
                   update_progress_reply(data, outcome))
    /\ reqs' = [reqs EXCEPT ![r] = Idle]
    /\ UNCHANGED <<users, clock, nreq>>

\* update_progress from db.put_doc on (api.rs 165-177).
update_progress_put(r, outcome) ==
    /\ reqs[r].pc = "put_doc"
    /\ LET user == The(reqs[r].user)
           data == The(reqs[r].data)
           call == Call("put_doc", <<user, data.document>>, Some(data),
                        PutResult(outcome))
       IN  /\ docs' = put_doc(user, data.document, data, outcome)
           /\ last' = Step(r, "update_progress_put", reqs[r].user, NoHeaders,
                   Some(data), Append(reqs[r].calls, call),
                   <<Log(IF outcome = "ok" THEN "info" ELSE "error", "PUSH", user,
                         None)>>,
                   update_progress_reply(data, outcome))
    /\ reqs' = [reqs EXCEPT ![r] = Idle]
    /\ UNCHANGED <<users, clock, nreq>>

\* The wall clock advances.
Tick ==
    /\ clock < MaxClock
    /\ clock' = clock + 1
    /\ last' = Step(0, "tick", None, NoHeaders, None, << >>, << >>, NoResp)
    /\ UNCHANGED <<users, docs, reqs, nreq>>

Next ==
    \/ \E r \in Reqs, h \in AuthHeaders, o \in Outcomes : auth(r, h, o)
    \/ \E r \in Reqs : auth_user(r)
    \/ \E r \in Reqs : healthcheck(r)
    \/ \E r \in Reqs, h \in PlainHeaders : robots(r, h)
    \/ \E r \in Reqs, i \in CreateUserInputs, o \in Outcomes :
            create_user(r, i[1], i[2], o)
    \/ \E r \in Reqs, o \in Outcomes : create_user_put(r, o)
    \/ \E r \in Reqs, d \in DocVals, o \in Outcomes : get_progress(r, d, o)
    \/ \E r \in Reqs, d \in ProgressBodies : update_progress(r, d)
    \/ \E r \in Reqs, o \in Outcomes : update_progress_put(r, o)
    \/ Tick

Spec == Init /\ [][Next]_vars

\* The steps of the request in slot r once it is past its first step: the
\* runtime drives an accepted request until it is answered, and a store
\* call returns (a value, nothing, or a fault).
Advance(r) ==
    \/ auth_user(r)
    \/ healthcheck(r)
    \/ \E d \in DocVals, o \in Outcomes : get_progress(r, d, o)
    \/ \E d \in ProgressBodies : update_progress(r, d)
    \/ \E o \in Outcomes : create_user_put(r, o)
    \/ \E o \in Outcomes : update_progress_put(r, o)

SpecFair == Init /\ [][Next]_vars /\ \A r \in Reqs : WF_vars(Advance(r))

\* The server started on a store that kept one registration of an earlier
\* run (create_user of sB with secret sB, api.rs 113).
InitRegistered ==
    /\ users = MapPut(EmptyMap, sB, sB)
    /\ docs = EmptyMap
    /\ clock = 0
    /\ reqs = [r \in Reqs |-> Idle]
    /\ nreq = 0
    /\ last = Step(0, "init", None, NoHeaders, None, << >>, << >>, NoResp)

SpecRegistered == InitRegistered /\ [][Next]_vars

\* ----------------------------------------------------------------- claims

\* The text of a header, when the header is present, is text, is within the
\* length limit and is a valid field.
WellFormed(headers, name) ==
    /\ headers[name] # None
    /\ to_str(The(headers[name])) # None
    /\ Len(The(headers[name])) <= FIELD_LEN_LIMIT
    /\ is_valid_field(The(headers[name]))

Admitted == last.op = "auth" /\ last.resp.status = "none"
Rejected == last.op = "auth" /\ last.resp.status # "none"

\* C1: the gate lets a request through only when x-auth-user and x-auth-key
\* are both present and valid and the key equals the secret that get_user
\* returned for that user in this very request; the principal attached is
\* the x-auth-user value.  It holds of every request, whatever came before.
C1_AdmitOnlyOnMatch ==
    Admitted =>
        /\ WellFormed(last.headers, "x-auth-user")
        /\ WellFormed(last.headers, "x-auth-key")
        /\ last.calls = <<Call("get_user", The(last.headers["x-auth-user"]), None,
                               Ok(last.headers["x-auth-key"]))>>
        /\ MapGet(users, The(last.headers["x-auth-user"])) = last.headers["x-auth-key"]
        /\ reqs[last.req].pc = "handler"
        /\ reqs[last.req].user = last.headers["x-auth-user"]

\* C1 witness: a request is admitted after an earlier request was served.
C1_Witness ==
    /\ Admitted
    /\ nreq >= 2
    /\ reqs[last.req].user = Some(sB)

\* C2: when the lookup returns a value, a wrong key for an existing user and
\* an unknown user both yield Unauthorized; Internal is the answer exactly
\* when the lookup faults.
C2_MismatchIsUnauthorized ==
    last.op = "auth" =>
        /\ ( /\ Len(last.calls) = 1
             /\ last.calls[1].res.ok
             /\ last.calls[1].res.val # last.headers["x-auth-key"] )
           => last.resp.status = "Unauthorized"
        /\ last.resp.status = "Internal"
           <=> (Len(last.calls) = 1 /\ ~last.calls[1].res.ok)

\* C2 witness: an existing user, a well-formed but wrong key, Unauthorized.
C2_Witness ==
    /\ Rejected
    /\ WellFormed(last.headers, "x-auth-key")
    /\ WellFormed(last.headers, "x-auth-user")
    /\ The(last.headers["x-auth-user"]) \in DOMAIN users
    /\ users[The(last.headers["x-auth-user"])] # The(last.headers["x-auth-key"])
    /\ last.resp.status = "Unauthorized"

\* C3: with the store answering its calls, creating an absent user u with s1
\* answers 201 and the username; creating u again with s2 answers UserExists
\* and leaves s1 stored; the gate then rejects (u, s2) as Unauthorized and
\* admits (u, s1).
C3_DuplicateRegistration ==
    /\ (last.op = "create_user_put" /\ last.calls[Len(last.calls)].res.ok)
        => /\ last.resp = [status |-> "Created",
                           username |-> The(last.body).username]
           /\ MapGet(users, The(last.body).username) = Some(The(last.body).password)
    /\ ( /\ last.op = "create_user"
         /\ Len(last.calls) = 1
         /\ last.calls[1].res.ok
         /\ last.calls[1].res.val # None )
        => /\ last.resp.status = "UserExists"
           /\ MapGet(users, The(last.body).username) = last.calls[1].res.val
    /\ ( /\ last.op = "auth"
         /\ Len(last.calls) = 1
         /\ last.calls[1].res.ok
         /\ last.calls[1].key \in DOMAIN users )
        => IF users[last.calls[1].key] = The(last.headers["x-auth-key"])
           THEN Admitted
           ELSE last.resp.status = "Unauthorized"

\* C3 witness: a second registration with another secret is refused.
C3_Witness ==
    /\ last.op = "create_user"
    /\ last.resp.status = "UserExists"
    /\ users[The(last.body).username] # The(last.body).password

\* C4: once a username has a stored secret, no later step changes or removes
\* it, under every interleaving of create_user requests and every pattern
\* of store faults.
C4_NeverOverwritten ==
    [][\A u \in DOMAIN users : u \in DOMAIN users' /\ users'[u] = users[u]]_vars

Ended == last.resp.status # "none"
NoFault == \A i \in 1..Len(last.calls) : last.calls[i].res.ok

\* C5: a record that update_progress accepted and stored (whatever its
\* document value) is returned by a pull of the same (user, document): the
\* pull succeeds with the percentage, progress cursor, device and device_id
\* that were pushed and a timestamp the server clock had reached by the end
\* of the push.
C5_RoundTrip ==
    /\ (last.op = "update_progress_put" /\ last.resp.status = "OK")
        => LET key == <<The(last.user), The(last.body).document>>
           IN  /\ key \in DOMAIN docs
               /\ SameProgress(docs[key], The(last.body))
               /\ docs[key].timestamp \in {Some(t) : t \in 0..clock}
    /\ ( /\ last.op = "get_progress"
         /\ NoFault
         /\ <<The(last.user), The(last.body).document>> \in DOMAIN docs )
        => LET key == <<The(last.user), The(last.body).document>>
           IN  /\ last.resp.status = "OK"
               /\ SameProgress(last.resp.body, docs[key])
               /\ last.resp.body.timestamp = docs[key].timestamp

\* C6: the timestamp of a stored record is the clock value the push read:
\* update_progress replaces whatever timestamp the payload carried, put_doc
\* stores the stamped record, and the response carries the stored timestamp.
C6_ServerTimestamp ==
    /\ last.op = "update_progress"
        => /\ The(reqs[last.req].data).timestamp = Some(clock)
           /\ The(reqs[last.req].data) = [The(last.body) EXCEPT !.timestamp = Some(clock)]
    /\ (last.op = "update_progress_put" /\ last.resp.status = "OK")
        => LET key == <<The(last.user), The(last.body).document>>
           IN  /\ docs[key] = The(last.body)
               /\ last.resp.body.timestamp = docs[key].timestamp
    /\ \A k \in DOMAIN docs : docs[k].timestamp \in {Some(t) : t \in 0..clock}

\* C6 witness: a payload that carried a client timestamp is stored with the
\* server's clock value, which the response repeats.
C6_Witness ==
    /\ last.op = "update_progress_put"
    /\ last.resp.status = "OK"
    /\ The(last.body).percentage = 2
    /\ clock = 1
    /\ docs[<<The(last.user), The(last.body).document>>].timestamp = Some(1)
    /\ last.resp.body.timestamp = Some(1)

\* C7: a request one of whose store calls faulted ends with Internal, and
\* the faulting call is the last call it issued (no retry, nothing written
\* after the fault).
C7_FaultIsInternal ==
    (Ended /\ ~NoFault) =>
        /\ last.resp.status = "Internal"
        /\ \A i \in 1..Len(last.calls) : ~last.calls[i].res.ok => i = Len(last.calls)

BadAuth(s) ==
    /\ s.op = "auth"
    /\ ~(WellFormed(s.headers, "x-auth-user") /\ WellFormed(s.headers, "x-auth-key"))

BadCreate(s) ==
    /\ s.op = "create_user"
    /\ ~(is_valid_key_field(The(s.body).username) /\ is_valid_field(The(s.body).password))

BadPull(s) ==
    /\ s.op = "get_progress"
    /\ ~is_valid_key_field(The(s.body).document)

\* C8 (as stated): a request failing validation is rejected (Unauthorized,
\* InvalidRequest, DocumentFieldMissing) with no store call issued by the
\* request and the store unchanged.
C8_NoStoreCallAtAll ==
    [][ /\ BadAuth(last') => (last'.resp.status = "Unauthorized" /\ last'.calls = << >>)
        /\ BadCreate(last') => (last'.resp.status = "InvalidRequest" /\ last'.calls = << >>)
        /\ BadPull(last') => (last'.resp.status = "DocumentFieldMissing" /\ last'.calls = << >>)
        /\ (BadAuth(last') \/ BadCreate(last') \/ BadPull(last'))
            => (users' = users /\ docs' = docs) ]_vars

\* C8 (amended): as above, except that a pull reaches its handler only
\* through the gate: the handler rejects an invalid document without issuing
\* a call of its own, the gate's get_user being the request's only call.
C8_FailFast ==
    [][ /\ BadAuth(last') => (last'.resp.status = "Unauthorized" /\ last'.calls = << >>)
        /\ BadCreate(last') => (last'.resp.status = "InvalidRequest" /\ last'.calls = << >>)
        /\ BadPull(last')
            => /\ last'.resp.status = "DocumentFieldMissing"
               /\ last'.calls = reqs[last'.req].calls
               /\ Len(last'.calls) = 1
               /\ last'.calls[1].op = "get_user"
        /\ (BadAuth(last') \/ BadCreate(last') \/ BadPull(last'))
            => (users' = users /\ docs' = docs) ]_vars

\* C8 witness: a pull with an invalid document id was refused by the handler.
C8_Witness ==
    /\ BadPull(last)
    /\ last.resp.status = "DocumentFieldMissing"
    /\ users # EmptyMap

\* A log line shows the x-auth-key value when it prints a header map that
\* holds the header.
ShowsAuthKey(line) ==
    line.headers # None /\ The(line.headers)["x-auth-key"] # None

\* C9: the lines the gate logs for a rejected request do not contain the
\* x-auth-key value the caller sent.
C9_NoKeyInRejectionLog ==
    Rejected =>
        \A i \in 1..Len(last.log) :
            last.log[i].level \in {"warn", "error"} => ~ShowsAuthKey(last.log[i])

\* The calls a handler issued itself: behind the gate, all but the gate's.
HandlerCalls ==
    IF last.op = "auth" THEN {}
    ELSE IF last.user # None THEN 2..Len(last.calls)
    ELSE 1..Len(last.calls)

\* C10: in every handler (create_user, get_progress, update_progress) every
\* username and document id handed to the store as a key has passed
\* is_valid_key_field and every stored opaque value has passed
\* is_valid_field.
C10_ValidatedBeforeStore ==
    \A i \in HandlerCalls :
        LET c == last.calls[i]
        IN  /\ c.op \in {"get_user", "put_user"} => is_valid_key_field(c.key)
            /\ c.op \in {"get_doc", "put_doc"}
                => is_valid_key_field(c.key[1]) /\ is_valid_key_field(c.key[2])
            /\ c.op = "put_user" => is_valid_field(The(c.val))
            /\ c.op = "put_doc"
                => /\ is_valid_field(The(c.val).progress)
                   /\ is_valid_field(The(c.val).device)
                   /\ is_valid_field(The(c.val).device_id)

\* C11: a pull by an authenticated user of a valid document id under which
\* that user has no stored record answers success with the echoed document
\* id alone, whatever other users stored under the same document id, and
\* leaves both stores as they were (the store answering its calls).
C11_PullBeforePush ==
    [][ ( /\ last'.op = "get_progress"
          /\ is_valid_key_field(The(last'.body).document)
          /\ NoFault'
          /\ <<The(last'.user), The(last'.body).document>> \notin DOMAIN docs )
        => /\ last'.resp = [status |-> "OK",
                            body |-> [document |-> The(last'.body).document]]
           /\ users' = users
           /\ docs' = docs ]_vars

\* C11 witness: the pull was answered with the document id alone while
\* another user holds a record under the same document id.
C11_Witness ==
    /\ last.op = "get_progress"
    /\ last.resp = [status |-> "OK", body |-> [document |-> The(last.body).document]]
    /\ \E k \in DOMAIN docs :
            k[2] = The(last.body).document /\ k[1] # The(last.user)

\* C12: pushes to the same (user, document) do not merge: a progress
\* record changes only by a put_doc that returned, and the record then stored
\* under the key equals, in every field, the complete record that push
\* handed to put_doc, whatever the key held and whatever other pushes to the
\* key are running; no record is removed.
C12_LastWriteWins ==
    [][ /\ DOMAIN docs \subseteq DOMAIN docs'
        /\ \A k \in DOMAIN docs' :
              (k \notin DOMAIN docs \/ docs'[k] # docs[k])
              => /\ last'.op = "update_progress_put"
                 /\ last'.resp.status = "OK"
                 /\ k = <<The(last'.user), The(last'.body).document>>
        /\ (last'.op = "update_progress_put" /\ last'.resp.status = "OK")
              => /\ docs'[<<The(last'.user), The(last'.body).document>>]
                        = The(last'.body)
                 /\ last'.calls[Len(last'.calls)].val = last'.body ]_vars

\* C12 witness: a push has just written the key while another push of a
\* different record to the same key has read the clock and not yet written.
C12_Witness ==
    /\ last.op = "update_progress_put"
    /\ last.resp.status = "OK"
    /\ \E q \in Reqs :
          /\ reqs[q].pc = "put_doc"
          /\ reqs[q].user = last.user
          /\ The(reqs[q].data).document = The(last.body).document
          /\ ~SameProgress(The(reqs[q].data), The(last.body))
    /\ docs[<<The(last.user), The(last.body).document>>] = The(last.body)

\* C13: a push that starts when the key already holds a record (the same
\* record pushed before, in particular) reads a timestamp not smaller than
\* the stored one, and a push whose put_doc returned answers success with
\* that timestamp and leaves its own content, with its own timestamp, as the
\* stored record.
C13_IdempotentPush ==
    /\ last.op = "update_progress"
        => LET data == The(reqs[last.req].data)
               key == <<The(last.user), data.document>>
           IN  key \in DOMAIN docs
                 => The(docs[key].timestamp) <= The(data.timestamp)
    /\ (last.op = "update_progress_put" /\ NoFault)
        => LET data == The(last.body)
           IN  /\ last.resp = [status |-> "OK",
                               body |-> [document |-> data.document,
                                         timestamp |-> data.timestamp]]
               /\ docs[<<The(last.user), data.document>>] = data

\* C13 witness: the record stored by an earlier push is pushed again by the
\* same user after the clock advanced.
C13_Witness ==
    /\ last.op = "update_progress"
    /\ <<The(last.user), The(last.body).document>> \in DOMAIN docs
    /\ SameProgress(docs[<<The(last.user), The(last.body).document>>],
                    The(last.body))
    /\ The(docs[<<The(last.user), The(last.body).document>>].timestamp)
         < The(The(reqs[last.req].data).timestamp)

\* C14 (as stated): the stored timestamp of a key never decreases from one
\* write to the next, under any interleaving of pushes to the key.
C14_TimestampNeverDecreases ==
    [][\A k \in DOMAIN docs :
          /\ k \in DOMAIN docs'
          /\ The(docs'[k].timestamp) >= The(docs[k].timestamp)]_vars

\* C14 (amended): the last put_doc to reach the store wins, with the clock
\* value its push read.  A push reads a timestamp not smaller than that of
\* any record stored at that moment; the stored timestamp of a key decreases
\* only by the put of a push that read the clock before the clock reached
\* its present value, and the record it leaves is that push's.
C14_StoreOrderWins ==
    [][ /\ last'.op = "update_progress"
          => \A k \in DOMAIN docs :
                The(docs[k].timestamp) <= The(The(reqs'[last'.req].data).timestamp)
        /\ \A k \in DOMAIN docs :
              /\ k \in DOMAIN docs'
              /\ The(docs[k].timestamp) <= clock
              /\ The(docs'[k].timestamp) < The(docs[k].timestamp)
                  => /\ last'.op = "update_progress_put"
                     /\ docs'[k] = The(last'.body)
                     /\ The(docs'[k].timestamp) < clock ]_vars

\* C14 witness: the key holds the record of a push that read the clock
\* later than a push to the same key that has not reached the store yet.
C14_Witness ==
    /\ last.op = "update_progress_put"
    /\ last.resp.status = "OK"
    /\ \E q \in Reqs :
          /\ reqs[q].pc = "put_doc"
          /\ reqs[q].user = last.user
          /\ The(reqs[q].data).document = The(last.body).document
          /\ The(The(reqs[q].data).timestamp) < The(The(last.body).timestamp)

\* C15: get_progress and update_progress hand the store the username of
\* the principal the gate attached as the user part of every key; a pull
\* answers with the record stored under the principal's own key or with the
\* document id alone, and a record is created or changed only under the
\* username of the principal whose push wrote it.
C15_PerUserIsolation ==
    [][ /\ last'.op \in {"get_progress", "update_progress", "update_progress_put"}
          => /\ last'.user = reqs[last'.req].user
             /\ last'.calls[1].op = "get_user"
             /\ last'.calls[1].key = The(last'.user)
             /\ \A i \in 2..Len(last'.calls) :
                   last'.calls[i].key[1] = The(last'.user)
        /\ (last'.op = "get_progress" /\ last'.resp.status = "OK")
          => LET key == <<The(last'.user), The(last'.body).document>>
             IN  IF key \in DOMAIN docs
                 THEN last'.resp.body = docs[key]
                 ELSE last'.resp.body = [document |-> key[2]]
        /\ \A k \in DOMAIN docs \cup DOMAIN docs' :
              (k \notin DOMAIN docs \/ k \notin DOMAIN docs' \/ docs'[k] # docs[k])
              => /\ last'.op = "update_progress_put"
                 /\ k[1] = The(last'.user) ]_vars

\* C15 witness: two users hold different records under the same document
\* id, the one pushed last being stored under its own principal.
C15_Witness ==
    /\ last.op = "update_progress_put"
    /\ last.resp.status = "OK"
    /\ \E k \in DOMAIN docs :
          /\ k[1] # The(last.user)
          /\ k[2] = The(last.body).document
          /\ ~SameProgress(docs[k], docs[<<The(last.user), k[2]>>])

\* C16: the credential store changes only by a create_user whose put_user
\* returned and the progress store only by an update_progress whose put_doc
\* returned; the gate (admitting or rejecting), the identity check,
\* healthcheck, robots and a pull leave both stores as they were, create_user
\* leaves the progress store and update_progress the credential store.
C16_Frame ==
    [][ /\ users' # users
          => (last'.op = "create_user_put" /\ last'.resp.status = "Created")
        /\ docs' # docs
          => (last'.op = "update_progress_put" /\ last'.resp.status = "OK")
        /\ last'.op \in {"auth", "auth_user", "healthcheck", "robots", "get_progress"}
          => (users' = users /\ docs' = docs)
        /\ last'.op \in {"create_user", "create_user_put"} => docs' = docs
        /\ last'.op \in {"update_progress", "update_progress_put"}
          => users' = users ]_vars

\* C16 witness: a healthcheck was answered on a store that holds a user and
\* a progress record.
C16_Witness ==
    /\ last.op = "healthcheck"
    /\ last.resp.status = "OK"
    /\ users # EmptyMap
    /\ docs # EmptyMap

\* C17: from an empty store, after any sequence of requests every stored
\* username passes is_valid_key_field and its secret passes is_valid_field,
\* and every progress record is keyed by a username that is in the
\* credential store.
C17_StoreWellFormed ==
    /\ \A u \in DOMAIN users : is_valid_key_field(u) /\ is_valid_field(users[u])
    /\ \A k \in DOMAIN docs : k[1] \in DOMAIN users

\* C17 witness: two users are registered and one of them has pushed.
C17_Witness ==
    /\ last.op = "update_progress_put"
    /\ last.resp.status = "OK"
    /\ \E u, v \in DOMAIN users : u # v
    /\ docs # EmptyMap

\* The named errors of the taxonomy.
ErrorNames ==
    {"InvalidRequest", "UserExists", "Unauthorized", "DocumentFieldMissing",
     "Internal"}

\* The answers each step may give.
Answers(op) ==
    CASE op = "auth" -> {"Unauthorized", "Internal"}
      [] op = "create_user" -> {"InvalidRequest", "UserExists"}
      [] op = "create_user_put" -> {"Created", "Internal"}
      [] op = "get_progress" -> {"OK", "DocumentFieldMissing", "Internal"}
      [] op = "update_progress_put" -> {"OK", "Internal"}
      [] op \in {"auth_user", "healthcheck", "robots"} -> {"OK"}
      [] OTHER -> {}

\* C18: the error mapping is total: under every store outcome a step that
\* answers gives a success or one of the five named errors (the ones its
\* handler can give), a step that does not answer leaves its request
\* running, and every running request is answered.
C18_TotalMapping ==
    /\ [](Ended => /\ last.resp.status \in {"OK", "Created"} \cup ErrorNames
                   /\ last.resp.status \in Answers(last.op)
                   /\ reqs[last.req].pc = "idle")
    /\ []((~Ended /\ last.op \notin {"init", "tick"})
            => reqs[last.req].pc \in {"handler", "put_user", "put_doc"})
    /\ \A r \in Reqs : (reqs[r].pc # "idle") ~> (reqs[r].pc = "idle")

\* C18 witness: a pull whose get_doc faulted was answered Internal after an
\* earlier request had been served.
C18_Witness ==
    /\ last.op = "get_progress"
    /\ ~NoFault
    /\ last.resp.status = "Internal"
    /\ reqs[last.req].pc = "idle"

\* The x-real-ip header is present and is text.
WellFormedAddr(headers) ==
    /\ HeaderGet(headers, "x-real-ip") # None
    /\ to_str(The(HeaderGet(headers, "x-real-ip"))) # None

\* C19: the address in the gate's request line is the x-real-ip value when
\* the header is present and well formed and the peer address otherwise
\* (absent or not well formed); the gate's answer is what the x-auth-user
\* and x-auth-key headers and the lookup alone determine, whatever x-real-ip
\* and the peer address are.
C19_LoggedAddress ==
    last.op = "auth" =>
        /\ last.log[1].who =
              IF WellFormedAddr(last.headers)
              THEN The(to_str(The(HeaderGet(last.headers, "x-real-ip"))))
              ELSE sPeer
        /\ LET bare == MkHeaders(HeaderGet(last.headers, "x-auth-user"),
                                 HeaderGet(last.headers, "x-auth-key"), None)
               user == check(bare, "x-auth-user")
               key == check(bare, "x-auth-key")
           IN  IF user # None /\ key # None
               THEN /\ Len(last.calls) = 1
                    /\ last.calls[1].key = The(user)
                    /\ LET verdict == auth_match(The(key), last.calls[1].res)
                       IN  IF verdict = "admit" THEN Admitted
                           ELSE last.resp = Failure(verdict)
               ELSE last.calls = << >> /\ last.resp = Failure("Unauthorized")

====
